---------------------------- MODULE Spec2Model ----------------------------
(***************************************************************************)
(* Model of personalexpensetracker.py: the Excel storage helpers           *)
(* (ensure_excel_exists, get_expenses, save_expenses) and the handlers of  *)
(* ExpenseTrackerApp (add dialog, delete, summary report).                 *)
(*                                                                         *)
(* Values.  A Python value or a worksheet cell is a record [tag, s, n]:    *)
(*   "str"   a Python str / a text cell, s its text                        *)
(*   "num"   a float / a numeric cell, n its value in units of 0.0001      *)
(*   "nan"   the float nan (what read_excel yields for an empty cell)      *)
(*   "blank" an empty worksheet cell                                       *)
(*   "money" the text "$d.dd" produced by f"${x:.2f}", n its cents         *)
(***************************************************************************)
EXTENDS Integers, Sequences, FiniteSets, TLC

VARIABLES file, expenses, tree, add_win, report_win, msgs, last

vars == <<file, expenses, tree, add_win, report_win, msgs, last>>

-----------------------------------------------------------------------------
(* Bounds and units *)

\* The add dialog is offered while the collection holds fewer rows than this.
MaxRows == 2

\* Amount units per cent: amounts are counted in 0.0001, ".2f" keeps 0.01.
Cent == 100

\* The delete tolerance 0.001 in amount units.
Tolerance == 10

\* datetime.now().strftime(DATE_FORMAT): the day the session runs.
Today == "2024-02-03"

-----------------------------------------------------------------------------
(* Values *)

Str(s) == [tag |-> "str", s |-> s, n |-> 0]
Num(n) == [tag |-> "num", s |-> "", n |-> n]
NaN == [tag |-> "nan", s |-> "", n |-> 0]
Blank == [tag |-> "blank", s |-> "", n |-> 0]
Money(c) == [tag |-> "money", s |-> "$", n |-> c]

\* Python's ==: nan equals nothing (itself included), a str never equals a float.
PyEq(a, b) == /\ a.tag = b.tag
              /\ a.tag \in {"str", "num", "money"}
              /\ a.s = b.s
              /\ a.n = b.n

HEADERS == <<"Date", "Category", "Amount", "Description", "Account Number",
             "Bank Name", "Wallet Type", "Wallet Address">>

HeaderSet == {HEADERS[i] : i \in DOMAIN HEADERS}

\* (the source writes the three "Insurance" names with an en dash)
EXPENSE_CATEGORIES ==
  [Personal |-> <<"Rent / Mortgage", "Utilities (Electricity, Water, Gas)", "Groceries",
                  "Transportation (Fuel, Public Transport, Parking)", "Internet and Mobile",
                  "Insurance - Health", "Insurance - Car", "Insurance - Home",
                  "Loan Payments", "Subscriptions (Netflix, Spotify, etc.)",
                  "Medical / Health Expenses", "Education / Tuition", "Clothing",
                  "Personal Care (Salon, Grooming, etc.)", "Dining Out",
                  "Travel / Vacation", "Entertainment (Movies, Games, Events)",
                  "Gifts & Donations", "Childcare", "Pet Expenses",
                  "Home Maintenance / Repairs", "Emergency Fund", "Investments",
                  "Hobby / Leisure Expenses", "Miscellaneous", "Crypto Transaction">>,
   Business |-> <<"Office Rent", "Office Utilities", "Office Supplies & Equipment",
                  "Employee Salaries & Wages", "Contractor / Freelancer Payments",
                  "Software & Subscriptions (Business)", "Advertising & Marketing",
                  "Business Internet & Phone", "Business Travel & Accommodation",
                  "Client Meals & Entertainment", "Business Insurance (Liability, etc.)",
                  "Training & Development", "Taxes & Legal Fees", "Bank Charges & Fees",
                  "Business Maintenance & Repairs">>]

ExpenseTypes == DOMAIN EXPENSE_CATEGORIES

Range(q) == {q[i] : i \in DOMAIN q}

\* `category in EXPENSE_CATEGORIES.get(t, [])` for a Python value.
InList(v, t) == \E i \in DOMAIN EXPENSE_CATEGORIES[t] : PyEq(v, Str(EXPENSE_CATEGORIES[t][i]))

-----------------------------------------------------------------------------
(* Library conversions, over the texts the model uses *)

\* datetime.strptime(s, '%Y-%m-%d') then strftime('%Y-%m'): %m and %d accept
\* one digit, so "2024-1-5" parses; anything else here raises ValueError.
Strptime(s) ==
  CASE s = "2024-01-15" -> [ok |-> TRUE, month_year |-> "2024-01"]
    [] s = "2024-01-20" -> [ok |-> TRUE, month_year |-> "2024-01"]
    [] s = "2024-02-03" -> [ok |-> TRUE, month_year |-> "2024-02"]
    [] s = "2024-1-5"   -> [ok |-> TRUE, month_year |-> "2024-01"]
    [] OTHER            -> [ok |-> FALSE, month_year |-> ""]

\* float(s): "err" stands for ValueError; "nan" is accepted and yields nan.
Float(s) ==
  CASE s = "12.5"    -> [err |-> FALSE, v |-> Num(125000)]
    [] s = "12.3449" -> [err |-> FALSE, v |-> Num(123449)]
    [] s = "-5"      -> [err |-> FALSE, v |-> Num(-50000)]
    [] s = "0"       -> [err |-> FALSE, v |-> Num(0)]
    [] s = "nan"     -> [err |-> FALSE, v |-> NaN]
    [] OTHER         -> [err |-> TRUE, v |-> NaN]

\* f"{x:.2f}" as cents: round to the nearest cent (no amount of the model lies
\* on a half cent, where the binary value of x would decide).
Round2(n) == (n + (Cent \div 2)) \div Cent

\* f"${x:.2f}" of a float.
FormatMoney(v) == IF v.tag = "num" THEN Money(Round2(v.n)) ELSE Str("$nan")

\* str(v) as Tcl stores a Treeview value.
TclString(v) == IF v.tag = "nan" THEN Str("nan") ELSE v

-----------------------------------------------------------------------------
(* Storage: the workbook is absent, unreadable, or a sheet of rows *)

HeaderOnly == [state |-> "ok", rows |-> <<>>]

\* ensure_excel_exists(): creates the workbook when absent, recreates it when
\* it cannot be read (after an error dialog), leaves a readable one alone.
\* (The header-mismatch warning changes nothing and is left out.)
ensure_excel_exists(f) ==
  CASE f.state = "absent"     -> [file |-> HeaderOnly, msgs |-> <<>>]
    [] f.state = "unreadable" -> [file |-> HeaderOnly, msgs |-> <<"Error Reading Excel">>]
    [] OTHER                  -> [file |-> f, msgs |-> <<>>]

\* pd.read_excel: an empty cell arrives as nan.
ReadCell(c) == IF c.tag = "blank" THEN NaN ELSE c

\* float(x) if pd.notna(x) else 0.0, and 0.0 on ValueError.
CoerceAmount(v) ==
  CASE v.tag = "nan" -> Num(0)
    [] v.tag = "num" -> v
    [] OTHER         -> IF Float(v.s).err THEN Num(0) ELSE Float(v.s).v

\* One DataFrame row as an expense dict.
LoadRow(row) ==
  [h \in HeaderSet |-> IF h = "Amount" THEN CoerceAmount(ReadCell(row[h]))
                                       ELSE ReadCell(row[h])]

\* get_expenses(): ensure_excel_exists, then every row of the sheet.
get_expenses(f) ==
  LET e == ensure_excel_exists(f)
  IN  [file |-> e.file,
       expenses |-> [i \in DOMAIN e.file.rows |-> LoadRow(e.file.rows[i])],
       msgs |-> e.msgs]

\* DataFrame.to_excel: nan and the empty string are written as empty cells.
WriteCell(v) == IF v.tag = "nan" \/ (v.tag = "str" /\ v.s = "") THEN Blank ELSE v

WriteRows(exps) == [i \in DOMAIN exps |-> [h \in HeaderSet |-> WriteCell(exps[i][h])]]

WriteOutcomes == {"ok", "fail"}

\* save_expenses(expenses): the whole sheet is rewritten; when to_excel raises
\* (the workbook is open elsewhere) the exception is caught, an error dialog
\* is shown, the workbook stays as it was and the caller is told nothing.
save_expenses(exps, f, outcome) ==
  IF outcome = "ok"
  THEN [file |-> [state |-> "ok", rows |-> WriteRows(exps)], msgs |-> <<>>]
  ELSE [file |-> f, msgs |-> <<"Error Saving Data">>]

-----------------------------------------------------------------------------
(* The list view *)

\* The eight values shown for one expense.
RowValues(expense) ==
  [i \in DOMAIN HEADERS |->
     IF HEADERS[i] = "Amount" THEN FormatMoney(expense["Amount"])
                              ELSE TclString(expense[HEADERS[i]])]

Item(values, tags) == [values |-> values, tags |-> tags]

Placeholder ==
  Item([i \in DOMAIN HEADERS |-> IF i = 1 THEN Str("No expenses recorded yet.") ELSE Str("")],
       "no_selection")

TotalRow(total_amount) ==
  Item([i \in DOMAIN HEADERS |->
          CASE i = 2 -> Str("TOTAL:") [] i = 3 -> Money(Round2(total_amount)) [] OTHER -> Str("")],
       "total_row")

\* The insert loop: iid = str(hash(tuple(values))), so a second row with the
\* same shown values makes tree.insert raise TclError ("Item ... already
\* exists"); the loop stops there, with no TOTAL row.
RECURSIVE InsertRows(_, _, _, _)
InsertRows(exps, i, items, total_amount) ==
  IF i > Len(exps)
  THEN [tree |-> Append(items, TotalRow(total_amount)), raised |-> "none"]
  ELSE IF \E j \in DOMAIN items : items[j].values = RowValues(exps[i])
       THEN [tree |-> items, raised |-> "TclError"]
       ELSE InsertRows(exps, i + 1, Append(items, Item(RowValues(exps[i]), "")),
                       total_amount + exps[i]["Amount"].n)

\* update_expense_treeview(): reloads self.expenses from the workbook, then
\* refills the tree.
update_expense_treeview(f) ==
  LET g == get_expenses(f)
      t == IF g.expenses = <<>>
           THEN [tree |-> <<Placeholder>>, raised |-> "none"]
           ELSE InsertRows(g.expenses, 1, <<>>, 0)
  IN  [file |-> g.file, expenses |-> g.expenses, tree |-> t.tree,
       msgs |-> g.msgs, raised |-> t.raised]

-----------------------------------------------------------------------------
(* The summary report *)

\* d[k] = d.get(k, 0) + a on a dict kept as its items in insertion order.
DictAdd(d, k, a) ==
  IF \E i \in DOMAIN d : PyEq(d[i].k, k)
  THEN [i \in DOMAIN d |-> IF PyEq(d[i].k, k) THEN [k |-> k, v |-> d[i].v + a] ELSE d[i]]
  ELSE Append(d, [k |-> k, v |-> a])

NoTotals == [category_summary |-> <<>>, monthly_summary |-> <<>>,
             personal_total |-> 0, business_total |-> 0, overall_total |-> 0]

\* The month key of one record: strptime raises TypeError (which the loop
\* does not catch) when the Date is not a str, ValueError when it does not parse.
MonthKey(date) ==
  IF date.tag # "str" THEN [raised |-> "TypeError", key |-> ""]
  ELSE IF Strptime(date.s).ok THEN [raised |-> "none", key |-> Strptime(date.s).month_year]
  ELSE [raised |-> "none", key |-> "Invalid Date"]

\* One pass of the loop body over a record.
Accumulate(acc, expense) ==
  LET category == expense["Category"]
      amount == expense["Amount"].n
  IN  [category_summary |-> DictAdd(acc.category_summary, category, amount),
       monthly_summary |-> DictAdd(acc.monthly_summary, Str(MonthKey(expense["Date"]).key), amount),
       personal_total |-> IF InList(category, "Personal")
                          THEN acc.personal_total + amount ELSE acc.personal_total,
       business_total |-> IF ~InList(category, "Personal") /\ InList(category, "Business")
                          THEN acc.business_total + amount ELSE acc.business_total,
       overall_total |-> acc.overall_total + amount]

\* The aggregation loop of generate_summary_report.
RECURSIVE Summarize(_, _, _)
Summarize(exps, i, acc) ==
  IF i > Len(exps) THEN [raised |-> "none", totals |-> acc]
  ELSE IF MonthKey(exps[i]["Date"]).raised # "none"
       THEN [raised |-> MonthKey(exps[i]["Date"]).raised, totals |-> acc]
       ELSE Summarize(exps, i + 1, Accumulate(acc, exps[i]))

NoReport == [open |-> FALSE, totals |-> NoTotals]

-----------------------------------------------------------------------------
(* The add dialog *)

NoDialog == [open |-> FALSE, expense_type |-> "", category |-> ""]

update_categories_Stale(selected_type) == EXPENSE_CATEGORIES["Personal"][1]

\* update_categories(): the selector takes the list of the selected type and
\* shows its first name.
update_categories(selected_type) ==
  LET categories == EXPENSE_CATEGORIES[selected_type]
  IN  IF categories # <<>> THEN categories[1] ELSE ""

\* The names the user picks in the category selector.
PickedCategories == {"Groceries"}

Optional(description, account_number, bank_name, wallet_type, wallet_address) ==
  [description |-> description, account_number |-> account_number, bank_name |-> bank_name,
   wallet_type |-> wallet_type, wallet_address |-> wallet_address]

NoneFilled == Optional("", "", "", "", "")
Filled == Optional("lunch", "ACC-1", "MyBank", "BTC", "addr1")

Entry(date_str, amount_str, optional) ==
  [date_str |-> date_str, amount_str |-> amount_str, optional |-> optional]

\* What the user types into the add dialog: a blank and a typed date, amounts
\* with two and with four decimals, optional fields filled or left blank, and
\* the malformed dates and amounts, alone and together.
Inputs == {Entry("", "12.3449", NoneFilled),
           Entry("2024-01-15", "12.5", Filled),
           Entry("2024-1-5", "12.5", Filled),
           Entry("", "nan", NoneFilled),
           Entry("15/01/2024", "12.5", Filled),
           Entry("", "abc", NoneFilled),
           Entry("2024-01-15", "-5", Filled),
           Entry("", "0", NoneFilled),
           Entry("15/01/2024", "abc", NoneFilled)}

NoInput == Entry("", "", NoneFilled)

\* What the last handler did: which one, what it was given, whether it wrote
\* the workbook, which exception ended it.
Last(op, input, sel, confirm, write, raised) ==
  [op |-> op, input |-> input, sel |-> sel, confirm |-> confirm,
   write |-> write, raised |-> raised]

new_expense(date_str, category, amount, o) ==
  [h \in HeaderSet |->
     CASE h = "Date" -> Str(date_str)
       [] h = "Category" -> Str(category)
       [] h = "Amount" -> amount
       [] h = "Description" -> Str(o.description)
       [] h = "Account Number" -> Str(o.account_number)
       [] h = "Bank Name" -> Str(o.bank_name)
       [] h = "Wallet Type" -> Str(o.wallet_type)
       [] OTHER -> Str(o.wallet_address)]

AppendExpense_Prepend(exps, e) == <<e>> \o exps

\* self.expenses.append(new_expense)
AppendExpense(exps, e) == Append(exps, e)

\* `amount <= 0` on a float: false for nan.
NotPositive(v) == v.tag = "num" /\ v.n <= 0

\* A validation failure of save_and_close: one error dialog, nothing else.
Rejected(title, input) ==
  [file |-> file, expenses |-> expenses, tree |-> tree, add_win |-> add_win,
   msgs |-> <<title>>, last |-> Last("add", input, 0, FALSE, "none", "none")]

\* save_and_close(): validate, append, save, refresh, report.
save_and_close(input, outcome) ==
  LET date_str == IF input.date_str = "" THEN Today ELSE input.date_str
      category == add_win.category
      parsed == Float(input.amount_str)
  IN  IF ~Strptime(date_str).ok THEN Rejected("Invalid Date", input)
      ELSE IF category = "" THEN Rejected("Missing Information", input)
      ELSE IF parsed.err \/ NotPositive(parsed.v) THEN Rejected("Invalid Amount", input)
      ELSE LET s == save_expenses(
                      AppendExpense(expenses,
                                    new_expense(date_str, category, parsed.v, input.optional)),
                      file, outcome)
               u == update_expense_treeview(s.file)
           IN  [file |-> u.file, expenses |-> u.expenses, tree |-> u.tree,
                add_win |-> IF u.raised = "none" THEN NoDialog ELSE add_win,
                msgs |-> IF u.raised = "none" THEN s.msgs \o u.msgs \o <<"Success">>
                                              ELSE s.msgs \o u.msgs,
                last |-> Last("add", input, 0, FALSE, outcome, u.raised)]

-----------------------------------------------------------------------------
(* Delete *)

\* float(values[2].replace('$', ''))
ShownAmount(v) == IF v.tag = "money" THEN Num(v.n * Cent) ELSE NaN

\* abs(a - b) < 0.001 on floats: false when either is nan.
WithinTolerance(a, b) ==
  /\ a.tag = "num"
  /\ b.tag = "num"
  /\ (IF a.n >= b.n THEN a.n - b.n ELSE b.n - a.n) < Tolerance

Matches_KeyFieldsOnly(expense, values) ==
  /\ PyEq(expense["Date"], values[1])
  /\ PyEq(expense["Category"], values[2])
  /\ WithinTolerance(expense["Amount"], ShownAmount(values[3]))

\* The field-by-field test of the delete loop, without its `not found`.
Matches(expense, values) ==
  /\ PyEq(expense["Date"], values[1])
  /\ PyEq(expense["Category"], values[2])
  /\ WithinTolerance(expense["Amount"], ShownAmount(values[3]))
  /\ PyEq(expense["Description"], values[4])
  /\ PyEq(expense["Account Number"], values[5])
  /\ PyEq(expense["Bank Name"], values[6])
  /\ PyEq(expense["Wallet Type"], values[7])
  /\ PyEq(expense["Wallet Address"], values[8])

\* The delete loop: the first match is skipped, every other record is kept.
RECURSIVE DeleteScan(_, _, _, _, _)
DeleteScan(exps, values, i, found, new_expenses) ==
  IF i > Len(exps) THEN [found |-> found, new_expenses |-> new_expenses]
  ELSE IF Matches(exps[i], values) /\ ~found
       THEN DeleteScan(exps, values, i + 1, TRUE, new_expenses)
       ELSE DeleteScan(exps, values, i + 1, found, Append(new_expenses, exps[i]))

\* A delete that ends after its dialogs, changing nothing.
Untouched(titles, sel, confirm) ==
  [file |-> file, expenses |-> expenses, tree |-> tree, msgs |-> titles,
   last |-> Last("delete", NoInput, sel, confirm, "none", "none")]

\* delete_selected_expense(): sel = 0 stands for an empty selection.
delete_selected_expense(sel, confirm, outcome) ==
  IF sel = 0 THEN Untouched(<<"No Selection">>, 0, FALSE)
  ELSE IF tree[sel].tags \in {"total_row", "no_selection"}
       THEN Untouched(<<"Cannot Delete">>, 0, FALSE)
  ELSE IF ~confirm THEN Untouched(<<"Confirm Deletion">>, 0, FALSE)
  ELSE LET d == DeleteScan(expenses, tree[sel].values, 1, FALSE, <<>>)
       IN  IF ~d.found THEN Untouched(<<"Confirm Deletion", "Not Found">>, sel, confirm)
           ELSE LET s == save_expenses(d.new_expenses, file, outcome)
                    u == update_expense_treeview(s.file)
                IN  [file |-> u.file, expenses |-> u.expenses, tree |-> u.tree,
                     msgs |-> IF u.raised = "none"
                              THEN <<"Confirm Deletion">> \o s.msgs \o u.msgs \o <<"Success">>
                              ELSE <<"Confirm Deletion">> \o s.msgs \o u.msgs,
                     last |-> Last("delete", NoInput, sel, confirm, outcome, u.raised)]

-----------------------------------------------------------------------------
(* Report *)

NothingToReport_Never(exps) == FALSE

\* `if not self.expenses`
NothingToReport(exps) == exps = <<>>

\* generate_summary_report(): reload, then either the "no expenses" notice or
\* the aggregation and the report window.
generate_summary_report ==
  LET g == get_expenses(file)
      r == Summarize(g.expenses, 1, NoTotals)
  IN  IF NothingToReport(g.expenses)
      THEN [file |-> g.file, expenses |-> g.expenses, report_win |-> NoReport,
            msgs |-> g.msgs \o <<"Summary Report">>,
            last |-> Last("report", NoInput, 0, FALSE, "none", "none")]
      ELSE [file |-> g.file, expenses |-> g.expenses,
            report_win |-> IF r.raised = "none" THEN [open |-> TRUE, totals |-> r.totals]
                                                ELSE NoReport,
            msgs |-> g.msgs,
            last |-> Last("report", NoInput, 0, FALSE, "none", r.raised)]

-----------------------------------------------------------------------------
(* Workbooks found at startup *)

Row(date, category, amount, o) ==
  [h \in HeaderSet |->
     CASE h = "Date" -> date
       [] h = "Category" -> category
       [] h = "Amount" -> amount
       [] h = "Description" -> WriteCell(Str(o.description))
       [] h = "Account Number" -> WriteCell(Str(o.account_number))
       [] h = "Bank Name" -> WriteCell(Str(o.bank_name))
       [] h = "Wallet Type" -> WriteCell(Str(o.wallet_type))
       [] OTHER -> WriteCell(Str(o.wallet_address))]

Sheet(rows) == [state |-> "ok", rows |-> rows]

\* The three records of the report example.
ExampleSheet ==
  Sheet(<<Row(Str("2024-01-15"), Str("Groceries"), Num(500000), Filled),
          Row(Str("2024-01-20"), Str("Office Rent"), Num(2000000), Filled),
          Row(Str("2024-02-03"), Str("Groceries"), Num(300000), Filled)>>)

\* Amount cells that are empty, text, or negative.
OddAmountSheet ==
  Sheet(<<Row(Str("2024-01-15"), Str("Groceries"), Blank, Filled),
          Row(Str("2024-01-20"), Str("Office Rent"), Str("abc"), Filled),
          Row(Str("2024-02-03"), Str("Groceries"), Num(-50000), Filled)>>)

\* A date in another format and a category outside the taxonomy.
ForeignSheet ==
  Sheet(<<Row(Str("15/01/2024"), Str("Snacks"), Num(123404), Filled),
          Row(Str("2024-01-15"), Str("Groceries"), Num(300000), Filled)>>)

\* An empty Date cell.
NoDateSheet ==
  Sheet(<<Row(Blank, Str("Groceries"), Num(300000), Filled)>>)

\* A negative amount under a category outside the taxonomy, and an amount
\* with four decimals beside fully filled text fields.
EditedSheet ==
  Sheet(<<Row(Str("2024-01-15"), Str("Snacks"), Num(-50000), Filled),
          Row(Str("2024-01-20"), Str("Groceries"), Num(123449), Filled)>>)

InitFiles == {[state |-> "absent", rows |-> <<>>], [state |-> "unreadable", rows |-> <<>>],
              HeaderOnly, ExampleSheet, OddAmountSheet, ForeignSheet, NoDateSheet,
              EditedSheet}

-----------------------------------------------------------------------------
(* The state machine *)

MainWindow == ~add_win.open /\ ~report_win.open

\* __main__ and __init__: ensure_excel_exists, get_expenses, then the first
\* refresh; a workbook whose refresh raises never gets a running window.
Init ==
  \E f \in InitFiles :
    LET u == update_expense_treeview(get_expenses(ensure_excel_exists(f).file).file)
    IN  /\ u.raised = "none"
        /\ file = u.file
        /\ expenses = u.expenses
        /\ tree = u.tree
        /\ add_win = NoDialog
        /\ report_win = NoReport
        /\ msgs = ensure_excel_exists(f).msgs
        /\ last = Last("init", NoInput, 0, FALSE, "none", "none")

Navigated == Last("window", NoInput, 0, FALSE, "none", "none")

\* open_add_expense_window(): Personal is preselected, update_categories() runs.
OpenAddExpenseWindow ==
  /\ MainWindow
  /\ Len(expenses) < MaxRows
  /\ add_win' = [open |-> TRUE, expense_type |-> "Personal",
                 category |-> update_categories("Personal")]
  /\ msgs' = <<>>
  /\ last' = Navigated
  /\ UNCHANGED <<file, expenses, tree, report_win>>

\* The type menu writes expense_type_var, whose trace runs update_categories.
SelectExpenseType(t) ==
  /\ add_win.open
  /\ add_win' = [open |-> TRUE, expense_type |-> t, category |-> update_categories(t)]
  /\ msgs' = <<>>
  /\ last' = Navigated
  /\ UNCHANGED <<file, expenses, tree, report_win>>

\* The read-only selector offers the names of the selected type only.
SelectCategory(c) ==
  /\ add_win.open
  /\ c \in Range(EXPENSE_CATEGORIES[add_win.expense_type])
  /\ add_win' = [add_win EXCEPT !.category = c]
  /\ msgs' = <<>>
  /\ last' = Navigated
  /\ UNCHANGED <<file, expenses, tree, report_win>>

SaveAndClose(input, outcome) ==
  /\ add_win.open
  /\ Len(expenses) < MaxRows
  /\ LET r == save_and_close(input, outcome)
     IN  /\ r.last.write \in {"none", outcome}
         /\ outcome = "fail" => r.last.write = "fail"
         /\ file' = r.file
         /\ expenses' = r.expenses
         /\ tree' = r.tree
         /\ add_win' = r.add_win
         /\ msgs' = r.msgs
         /\ last' = r.last
  /\ UNCHANGED report_win

\* WM_DELETE_WINDOW of the add dialog.
CloseAddWindow ==
  /\ add_win.open
  /\ add_win' = NoDialog
  /\ msgs' = <<>>
  /\ last' = Navigated
  /\ UNCHANGED <<file, expenses, tree, report_win>>

DeleteSelectedExpense(sel, confirm, outcome) ==
  /\ MainWindow
  /\ LET r == delete_selected_expense(sel, confirm, outcome)
     IN  /\ r.last.write \in {"none", outcome}
         /\ outcome = "fail" => r.last.write = "fail"
         /\ file' = r.file
         /\ expenses' = r.expenses
         /\ tree' = r.tree
         /\ msgs' = r.msgs
         /\ last' = r.last
  /\ UNCHANGED <<add_win, report_win>>

GenerateSummaryReport ==
  /\ MainWindow
  /\ LET r == generate_summary_report
     IN  /\ file' = r.file
         /\ expenses' = r.expenses
         /\ report_win' = r.report_win
         /\ msgs' = r.msgs
         /\ last' = r.last
  /\ UNCHANGED <<tree, add_win>>

\* The Close button of the report window.
CloseReport ==
  /\ report_win.open
  /\ report_win' = NoReport
  /\ msgs' = <<>>
  /\ last' = Navigated
  /\ UNCHANGED <<file, expenses, tree, add_win>>

Next ==
  \/ OpenAddExpenseWindow
  \/ \E t \in ExpenseTypes : SelectExpenseType(t)
  \/ \E c \in PickedCategories : SelectCategory(c)
  \/ \E input \in Inputs, outcome \in WriteOutcomes : SaveAndClose(input, outcome)
  \/ CloseAddWindow
  \/ \E sel \in 0..Len(tree), confirm \in BOOLEAN, outcome \in WriteOutcomes :
        DeleteSelectedExpense(sel, confirm, outcome)
  \/ GenerateSummaryReport
  \/ CloseReport

Spec == Init /\ [][Next]_vars

-----------------------------------------------------------------------------
(* Reference notions the properties are stated with *)

\* A date text in YYYY-MM-DD form.
CanonicalDate(s) == s \in {"2024-01-15", "2024-01-20", "2024-02-03"}

\* The value of an amount text that denotes a number above zero (else 0).
Decimal(s) == CASE s = "12.5" -> 125000 [] s = "12.3449" -> 123449 [] OTHER -> 0

ValidInput(input, category) ==
  /\ input.date_str = "" \/ CanonicalDate(input.date_str)
  /\ category # ""
  /\ Decimal(input.amount_str) > 0

\* The record a shown row stands for: every text field is that text, the
\* amount is within the tolerance of the shown amount.
Identical(expense, values) ==
  /\ \A i \in DOMAIN HEADERS :
       HEADERS[i] # "Amount" => expense[HEADERS[i]] = values[i] /\ values[i].tag = "str"
  /\ expense["Amount"].tag = "num"
  /\ values[3].tag = "money"
  /\ expense["Amount"].n - values[3].n * Cent < Tolerance
  /\ values[3].n * Cent - expense["Amount"].n < Tolerance

IdenticalAt(exps, values) == {i \in DOMAIN exps : Identical(exps[i], values)}

Min(S) == CHOOSE x \in S : \A y \in S : x <= y

RemoveAt(q, i) == SubSeq(q, 1, i - 1) \o SubSeq(q, i + 1, Len(q))

RECURSIVE SumOver(_, _)
SumOver(exps, I) ==
  IF I = {} THEN 0
  ELSE LET i == CHOOSE x \in I : TRUE IN exps[i]["Amount"].n + SumOver(exps, I \ {i})

Lookup(d, k) == {d[i].v : i \in {j \in DOMAIN d : d[j].k = k}}

\* The month key the report should file a record under.
RefMonth(date) ==
  IF date.tag = "str" /\ Strptime(date.s).ok THEN Str(Strptime(date.s).month_year)
  ELSE Str("Invalid Date")

-----------------------------------------------------------------------------
(* Properties *)

C2_RejectsInvalid ==
  [][(/\ last'.op = "add"
      /\ \/ last'.input.date_str # "" /\ ~CanonicalDate(last'.input.date_str)
         \/ Decimal(last'.input.amount_str) <= 0) =>
       /\ last'.write = "none"
       /\ msgs' \in {<<"Invalid Date">>, <<"Invalid Amount">>}
       /\ expenses' = expenses
       /\ file' = file]_vars

C4_DeleteRemovesOne ==
  [][(/\ last'.op = "delete"
      /\ last'.confirm
      /\ IdenticalAt(expenses, tree[last'.sel].values) # {}) =>
       expenses' = RemoveAt(expenses, Min(IdenticalAt(expenses, tree[last'.sel].values)))]_vars

\* With the save written, a confirmed delete removes exactly the first
\* identical record and keeps the others in order.
DeleteRemovesFirstWhenSaved ==
  [][(/\ last'.op = "delete"
      /\ last'.confirm
      /\ last'.write # "fail"
      /\ IdenticalAt(expenses, tree[last'.sel].values) # {}) =>
       expenses' = RemoveAt(expenses, Min(IdenticalAt(expenses, tree[last'.sel].values)))]_vars

\* C5: a confirmed delete whose shown row is identical to no record leaves the
\* collection and the workbook as they were, writes nothing and says that
\* nothing was found.
C5_NoMatchNoChange ==
  [][(/\ last'.op = "delete"
      /\ last'.confirm
      /\ IdenticalAt(expenses, tree[last'.sel].values) = {}) =>
       /\ expenses' = expenses
       /\ file' = file
       /\ last'.write = "none"
       /\ msgs' = <<"Confirm Deletion", "Not Found">>]_vars

\* C5 witness: a confirmed delete ended with "Not Found".
C5_Witness ==
  /\ last.op = "delete"
  /\ last.confirm
  /\ msgs = <<"Confirm Deletion", "Not Found">>

\* C6: an add or delete whose save failed does not end by announcing success.
C6_FailureSurfaced ==
  last.write = "fail" => \A i \in DOMAIN msgs : msgs[i] # "Success"

\* C7: after an add or delete whose save failed, the collection in memory
\* still holds the pending change: one record more after an add (the prior
\* ones in front), one record fewer after a delete.
C7_PendingChangeKept ==
  [][last'.write = "fail" =>
       IF last'.op = "add"
       THEN Len(expenses') = Len(expenses) + 1 /\ SubSeq(expenses', 1, Len(expenses)) = expenses
       ELSE Len(expenses') = Len(expenses) - 1]_vars

\* C8: the report on a non-empty collection is produced and its sums are the
\* reference sums: per category, per month key ("Invalid Date" when the date
\* does not parse), Personal, Business and overall.
C8_ReportSums ==
  (last.op = "report" /\ expenses # <<>>) =>
    /\ report_win.open
    /\ \A i \in DOMAIN expenses :
         /\ Lookup(report_win.totals.category_summary, expenses[i]["Category"]) =
              {SumOver(expenses, {j \in DOMAIN expenses :
                                    expenses[j]["Category"] = expenses[i]["Category"]})}
         /\ Lookup(report_win.totals.monthly_summary, RefMonth(expenses[i]["Date"])) =
              {SumOver(expenses, {j \in DOMAIN expenses :
                                    RefMonth(expenses[j]["Date"]) = RefMonth(expenses[i]["Date"])})}
    /\ report_win.totals.personal_total =
         SumOver(expenses, {j \in DOMAIN expenses : InList(expenses[j]["Category"], "Personal")})
    /\ report_win.totals.business_total =
         SumOver(expenses, {j \in DOMAIN expenses : InList(expenses[j]["Category"], "Business")})
    /\ report_win.totals.overall_total = SumOver(expenses, DOMAIN expenses)

\* A report that is produced carries the reference sums.
ReportSumsWhenProduced ==
  (last.op = "report" /\ expenses # <<>> /\ last.raised = "none") => C8_ReportSums

\* C9: every record of the collection in memory has an amount above zero.
C9_AmountPositive ==
  \A i \in DOMAIN expenses : expenses[i]["Amount"].tag = "num" /\ expenses[i]["Amount"].n > 0

\* C10: a report asked for while the freshly loaded collection is empty ends
\* with the "no expenses" notice alone: no sums are built and no report
\* window opens.
C10_EmptyNoReport ==
  (last.op = "report" /\ expenses = <<>>) =>
    /\ msgs = <<"Summary Report">>
    /\ ~report_win.open
    /\ report_win.totals = NoTotals

\* C10 witness: a report was asked for on an empty collection.
C10_Witness ==
  /\ last.op = "report"
  /\ expenses = <<>>
  /\ msgs = <<"Summary Report">>

\* The records whose category is listed under expense type t.
ListedUnder(exps, t) ==
  {j \in DOMAIN exps : \E i \in DOMAIN EXPENSE_CATEGORIES[t] :
                          exps[j]["Category"] = Str(EXPENSE_CATEGORIES[t][i])}

Unlisted(exps) == DOMAIN exps \ (ListedUnder(exps, "Personal") \cup ListedUnder(exps, "Business"))

\* The relation between the three totals of a report.
SubtotalsWithinOverall ==
  LET t == report_win.totals
  IN  /\ t.personal_total + t.business_total <= t.overall_total
      /\ t.personal_total + t.business_total = t.overall_total <=> Unlisted(expenses) = {}
      /\ t.personal_total = SumOver(expenses, ListedUnder(expenses, "Personal"))
      /\ t.business_total = SumOver(expenses, ListedUnder(expenses, "Business"))
      /\ t.overall_total = SumOver(expenses, DOMAIN expenses)
      /\ ListedUnder(expenses, "Personal") \cap ListedUnder(expenses, "Business") = {}
      /\ \A j \in Unlisted(expenses) :
           /\ Lookup(t.category_summary, expenses[j]["Category"]) # {}
           /\ Lookup(t.monthly_summary, RefMonth(expenses[j]["Date"])) # {}

\* C11: in every report personal_total + business_total <= overall_total,
\* with equality exactly when every record's category is in the taxonomy; a
\* record under neither list counts in overall_total, category-sum and
\* month-sum but in neither subtotal, and no record counts in both subtotals.
C11_SubtotalsWithinOverall ==
  report_win.open => SubtotalsWithinOverall

\* While every amount is above zero the totals of a report stand in that relation.
SubtotalsWithinOverallWhenPositive ==
  (report_win.open /\ C9_AmountPositive) => SubtotalsWithinOverall

\* The records with an amount above zero whose shown values are `values`.
ShownAs(exps, values) ==
  {i \in DOMAIN exps : /\ exps[i]["Amount"].tag = "num"
                       /\ exps[i]["Amount"].n > 0
                       /\ RowValues(exps[i]) = values}

\* The records that survive their display: every text field is text, and the
\* amount is within the tolerance of its rendering to 2 decimals.
Displayable(exps) ==
  {i \in DOMAIN exps :
     /\ \A h \in HeaderSet \ {"Amount"} : exps[i][h].tag = "str"
     /\ WithinTolerance(exps[i]["Amount"], ShownAmount(FormatMoney(exps[i]["Amount"])))}

\* C12: a confirmed delete whose candidate values are the shown values of a
\* record of the collection with a positive amount, of any number of
\* decimals, finds a match and removes a record.
C12_ShownRowIsFound ==
  [][(/\ last'.op = "delete"
      /\ last'.confirm
      /\ ShownAs(expenses, tree[last'.sel].values) # {}) =>
       /\ last'.write # "none"
       /\ \A i \in DOMAIN msgs' : msgs'[i] # "Not Found"
       /\ last'.write = "ok" => Len(expenses') = Len(expenses) - 1]_vars

\* The same delete finds its match when the shown record survives its display.
ShownRowIsFoundWhenDisplayable ==
  [][(/\ last'.op = "delete"
      /\ last'.confirm
      /\ ShownAs(expenses, tree[last'.sel].values) \cap Displayable(expenses) # {}) =>
       /\ last'.write # "none"
       /\ \A i \in DOMAIN msgs' : msgs'[i] # "Not Found"
       /\ last'.write = "ok" => Len(expenses') = Len(expenses) - 1]_vars

=============================================================================
